---------------------------- MODULE Spec2Model ----------------------------
(***************************************************************************)
(* A model of the header-encoding core of mail-codec-core:                 *)
(*   - components/src/mime_tools.rs : the MIME parameter encoder           *)
(*     (create_mime_parameters, create_encoded_mime_parameter, create_mime)*)
(*   - core/src/headers/header_macro.rs : the def_headers! registry, its   *)
(*     generated self-check and the header map contract it defines.        *)
(*                                                                         *)
(* Text is a sequence of characters; a character is a one-element string   *)
(* ("a", ";", ...), with "ue" standing for U+00FC and "SOH" for U+0001.    *)
(***************************************************************************)
EXTENDS Naturals, Sequences, FiniteSets

VARIABLES
    func,              \* the entry point that was called
    ty, subty,         \* create_mime's _type and subtype arguments
    params,            \* the parameter list handed in (the iterator's items)
    tp,                \* the MailType handed in
    debug_assertions,  \* whether the build compiles debug_assert! in
    pc,                \* position of the running call
    idx,               \* number of items taken from the iterator so far
    buf,               \* the output buffer (create_mime: its local string)
    emitted,           \* per examined entry, the text it appended to buf
    oracle,            \* what quote_if_needed returned for the last entry
    encoder,           \* what percent_encode_param_value returned for it
    result,            \* how the call ended
    err,               \* the error value of an Err result
    mime,              \* the value create_mime returned
    decls,             \* the records of one def_headers! call, in order
    selfcheck,         \* the outcome of the test def_headers! generates
    map,               \* the HeaderMap's entries, in insertion order
    attempts,          \* number of insert calls made on the map
    lastInsert,        \* the last insert call: kind, map before, outcome
    validated          \* the last run of the resent validator: map, outcome

evars == <<func, ty, subty, params, tp, debug_assertions, pc, idx, buf,
           emitted, oracle, encoder, result, err, mime>>

hvars == <<decls, selfcheck, map, attempts, lastInsert, validated>>

vars == <<evars, hvars>>

-----------------------------------------------------------------------------
(* Bounds of the model *)

MaxParams == 2

MaxValueLen == 2

MaxDecls == 3

MaxInserts == 2

MaxResent == 4

-----------------------------------------------------------------------------
(* core::grammar *)

Ascii == "Ascii"

Internationalized == "Internationalized"

MailType == {Ascii, Internationalized}

CtlChars == {"SOH"}

NonAsciiChars == {"ue"}

TSpecials == {"(", ")", "<", ">", "@", ",", ";", ":", "\\", "\"", "/",
              "[", "]", "?", "="}

is_token_char(ch) ==
    /\ ch \notin NonAsciiChars
    /\ ch \notin CtlChars
    /\ ch \notin TSpecials
    /\ ch # " "

is_token(s) == Len(s) >= 1 /\ \A i \in 1..Len(s) : is_token_char(s[i])

-----------------------------------------------------------------------------
(* core::codec::quoted_string and core::codec::mime *)

NotRepresentable == [ok |-> FALSE, tp |-> Ascii, text |-> <<>>]

Representable(mt, text) == [ok |-> TRUE, tp |-> mt, text |-> text]

RECURSIVE quote_escape(_)
quote_escape(s) ==
    IF s = <<>> THEN <<>>
    ELSE (IF Head(s) \in {"\"", "\\"} THEN <<"\\", Head(s)>> ELSE <<Head(s)>>)
         \o quote_escape(Tail(s))

quote_if_needed(value, mt) ==
    LET hasCtl == \E i \in 1..Len(value) : value[i] \in CtlChars
        hasNonAscii == \E i \in 1..Len(value) : value[i] \in NonAsciiChars
        allToken == \A i \in 1..Len(value) : is_token_char(value[i])
    IN  IF hasCtl \/ (hasNonAscii /\ mt = Ascii) THEN NotRepresentable
        ELSE IF allToken THEN Representable(Ascii, value)
        ELSE Representable(IF hasNonAscii THEN Internationalized ELSE Ascii,
                           <<"\"">> \o quote_escape(value) \o <<"\"">>)

percent_encode_char(ch) ==
    CASE ch = " "   -> <<"%", "2", "0">>
      [] ch = "\""  -> <<"%", "2", "2">>
      [] ch = "%"   -> <<"%", "2", "5">>
      [] ch = "'"   -> <<"%", "2", "7">>
      [] ch = "*"   -> <<"%", "2", "A">>
      [] ch = "\\"  -> <<"%", "5", "C">>
      [] ch = "SOH" -> <<"%", "0", "1">>
      [] ch = "ue"  -> <<"%", "C", "3", "%", "B", "C">>
      [] OTHER      -> <<ch>>

RECURSIVE percent_encode_text(_)
percent_encode_text(s) ==
    IF s = <<>> THEN <<>>
    ELSE percent_encode_char(Head(s)) \o percent_encode_text(Tail(s))

Borrowed(text) == [owned |-> FALSE, text |-> text]

Owned(text) == [owned |-> TRUE, text |-> text]

percent_encode_param_value(value) ==
    IF \E i \in 1..Len(value) : percent_encode_char(value[i]) # <<value[i]>>
    THEN Owned(percent_encode_text(value))
    ELSE Borrowed(value)

NotCalled == [owned |-> FALSE, text |-> <<"-">>]

-----------------------------------------------------------------------------
(* components::mime_tools *)

Outcome(kind, e, b) == [kind |-> kind, err |-> e, buf |-> b]

NoError == <<>>

InvalidToken(s) == <<"InvalidToken", s>>

assure_token(s) ==
    IF ~is_token(s) THEN [ok |-> FALSE, err |-> InvalidToken(s)]
    ELSE [ok |-> TRUE, err |-> NoError]

\* Mutants of create_encoded_mime_parameter: each is the code with one slip.

\* the name is pushed before it is checked
encoded_parameter_checks_name_late(name, value, b, mt, dbg, res, enc) ==
    IF ~assure_token(name).ok
    THEN Outcome("Err", assure_token(name).err, b \o <<";">> \o name)
    ELSE IF res.ok
    THEN IF dbg /\ mt = Ascii /\ res.tp = Internationalized
         THEN Outcome("Abort", NoError, b)
         ELSE Outcome("Ok", NoError,
                      b \o <<";">> \o name \o <<"=">> \o res.text)
    ELSE IF ~enc.owned
    THEN Outcome("Abort", NoError, b)
    ELSE Outcome("Ok", NoError,
                 b \o <<";">> \o name \o <<"*">> \o <<"=">>
                   \o <<"u", "t", "f", "8", "'", "'">> \o enc.text)

\* the `*` after the name of an encoded value is forgotten
encoded_parameter_without_star(name, value, b, mt, dbg, res, enc) ==
    IF ~assure_token(name).ok
    THEN Outcome("Err", assure_token(name).err, b)
    ELSE IF res.ok
    THEN IF dbg /\ mt = Ascii /\ res.tp = Internationalized
         THEN Outcome("Abort", NoError, b)
         ELSE Outcome("Ok", NoError,
                      b \o <<";">> \o name \o <<"=">> \o res.text)
    ELSE IF ~enc.owned
    THEN Outcome("Abort", NoError, b)
    ELSE Outcome("Ok", NoError,
                 b \o <<";">> \o name \o <<"=">>
                   \o <<"u", "t", "f", "8", "'", "'">> \o enc.text)

\* the charset prefix of an encoded value is forgotten
encoded_parameter_without_charset(name, value, b, mt, dbg, res, enc) ==
    IF ~assure_token(name).ok
    THEN Outcome("Err", assure_token(name).err, b)
    ELSE IF res.ok
    THEN IF dbg /\ mt = Ascii /\ res.tp = Internationalized
         THEN Outcome("Abort", NoError, b)
         ELSE Outcome("Ok", NoError,
                      b \o <<";">> \o name \o <<"=">> \o res.text)
    ELSE IF ~enc.owned
    THEN Outcome("Abort", NoError, b)
    ELSE Outcome("Ok", NoError,
                 b \o <<";">> \o name \o <<"*">> \o <<"=">> \o enc.text)

\* the caller's value is pushed instead of the text the oracle returned
encoded_parameter_pushes_input(name, value, b, mt, dbg, res, enc) ==
    IF ~assure_token(name).ok
    THEN Outcome("Err", assure_token(name).err, b)
    ELSE IF res.ok
    THEN IF dbg /\ mt = Ascii /\ res.tp = Internationalized
         THEN Outcome("Abort", NoError, b)
         ELSE Outcome("Ok", NoError,
                      b \o <<";">> \o name \o <<"=">> \o value)
    ELSE IF ~enc.owned
    THEN Outcome("Abort", NoError, b)
    ELSE Outcome("Ok", NoError,
                 b \o <<";">> \o name \o <<"*">> \o <<"=">>
                   \o <<"u", "t", "f", "8", "'", "'">> \o enc.text)

\* needed_encoding is set on the oracle's success too
encoded_parameter_flag_always_set(name, value, b, mt, dbg, res, enc) ==
    IF ~assure_token(name).ok
    THEN Outcome("Err", assure_token(name).err, b)
    ELSE IF res.ok
    THEN IF dbg /\ mt = Ascii /\ res.tp = Internationalized
         THEN Outcome("Abort", NoError, b)
         ELSE Outcome("Ok", NoError,
                      b \o <<";">> \o name \o <<"*">> \o <<"=">>
                        \o <<"u", "t", "f", "8", "'", "'">> \o res.text)
    ELSE IF ~enc.owned
    THEN Outcome("Abort", NoError, b)
    ELSE Outcome("Ok", NoError,
                 b \o <<";">> \o name \o <<"*">> \o <<"=">>
                   \o <<"u", "t", "f", "8", "'", "'">> \o enc.text)

\* the debug_assert! on the oracle's profile is missing
encoded_parameter_without_profile_check(name, value, b, mt, dbg, res, enc) ==
    IF ~assure_token(name).ok
    THEN Outcome("Err", assure_token(name).err, b)
    ELSE IF res.ok
    THEN Outcome("Ok", NoError,
                 b \o <<";">> \o name \o <<"=">> \o res.text)
    ELSE IF ~enc.owned
    THEN Outcome("Abort", NoError, b)
    ELSE Outcome("Ok", NoError,
                 b \o <<";">> \o name \o <<"*">> \o <<"=">>
                   \o <<"u", "t", "f", "8", "'", "'">> \o enc.text)

\* a value the percent encoder handed back unchanged is pushed as it is
encoded_parameter_accepts_borrowed(name, value, b, mt, dbg, res, enc) ==
    IF ~assure_token(name).ok
    THEN Outcome("Err", assure_token(name).err, b)
    ELSE IF res.ok
    THEN IF dbg /\ mt = Ascii /\ res.tp = Internationalized
         THEN Outcome("Abort", NoError, b)
         ELSE Outcome("Ok", NoError,
                      b \o <<";">> \o name \o <<"=">> \o res.text)
    ELSE Outcome("Ok", NoError,
                 b \o <<";">> \o name \o <<"*">> \o <<"=">>
                   \o <<"u", "t", "f", "8", "'", "'">> \o enc.text)

\* One call of create_encoded_mime_parameter, given what the two
\* collaborators return for `value`: res from quote_if_needed, enc from
\* percent_encode_param_value (read only when res is an Err).
create_encoded_mime_parameter(name, value, b, mt, dbg, res, enc) ==
    IF ~assure_token(name).ok
    THEN Outcome("Err", assure_token(name).err, b)
    ELSE IF res.ok
    THEN IF dbg /\ mt = Ascii /\ res.tp = Internationalized
         THEN Outcome("Abort", NoError, b)
         ELSE Outcome("Ok", NoError,
                      b \o <<";">> \o name \o <<"=">> \o res.text)
    ELSE IF ~enc.owned
    THEN Outcome("Abort", NoError, b)
    ELSE Outcome("Ok", NoError,
                 b \o <<";">> \o name \o <<"*">> \o <<"=">>
                   \o <<"u", "t", "f", "8", "'", "'">> \o enc.text)


-----------------------------------------------------------------------------
(* mime::Mime: the media-type text parser create_mime hands its string to *)

ParseFailure == [ok |-> FALSE, next |-> 0, text |-> <<>>, params |-> <<>>]

RECURSIVE TokenEnd(_, _)
\* the index after the longest run of token characters of s starting at i
TokenEnd(s, i) ==
    IF i > Len(s) \/ ~is_token_char(s[i]) THEN i ELSE TokenEnd(s, i + 1)

RECURSIVE parse_quoted(_, _, _)
\* the content of a quoted-string of s whose opening quote is before i
parse_quoted(s, i, acc) ==
    IF i > Len(s) THEN ParseFailure
    ELSE IF s[i] = "\""
    THEN [ok |-> TRUE, next |-> i + 1, text |-> acc, params |-> <<>>]
    ELSE IF s[i] = "\\"
    THEN IF i + 1 > Len(s) THEN ParseFailure
         ELSE parse_quoted(s, i + 2, Append(acc, s[i + 1]))
    ELSE IF s[i] \in CtlChars THEN ParseFailure
    ELSE parse_quoted(s, i + 1, Append(acc, s[i]))

parse_value(s, i) ==
    IF i <= Len(s) /\ s[i] = "\"" THEN parse_quoted(s, i + 1, <<>>)
    ELSE IF TokenEnd(s, i) = i THEN ParseFailure
    ELSE [ok |-> TRUE, next |-> TokenEnd(s, i),
          text |-> SubSeq(s, i, TokenEnd(s, i) - 1), params |-> <<>>]

RECURSIVE parse_params(_, _, _)
\* the *( ";" name "=" value ) part of s from index i on
parse_params(s, i, acc) ==
    IF i > Len(s)
    THEN [ok |-> TRUE, next |-> i, text |-> <<>>, params |-> acc]
    ELSE IF s[i] # ";" THEN ParseFailure
    ELSE LET ne == TokenEnd(s, i + 1)
         IN  IF ne = i + 1 \/ ne > Len(s) \/ s[ne] # "=" THEN ParseFailure
             ELSE LET v == parse_value(s, ne + 1)
                  IN  IF ~v.ok THEN ParseFailure
                      ELSE parse_params(s, v.next,
                               Append(acc, <<SubSeq(s, i + 1, ne - 1), v.text>>))

NoMime == [ok |-> FALSE, type |-> <<>>, subtype |-> <<>>, params |-> <<>>]

parse_mime(s) ==
    LET te == TokenEnd(s, 1)
        se == TokenEnd(s, te + 1)
    IN  IF te = 1 \/ te > Len(s) \/ s[te] # "/" \/ se = te + 1 THEN NoMime
        ELSE LET ps == parse_params(s, se, <<>>)
             IN  IF ~ps.ok THEN NoMime
                 ELSE [ok |-> TRUE, type |-> SubSeq(s, 1, te - 1),
                       subtype |-> SubSeq(s, te + 1, se - 1),
                       params |-> ps.params]

-----------------------------------------------------------------------------
(* The inputs a call is made with *)

SeqsUpTo(S, n) == UNION {[1..k -> S] : k \in 0..n}

Names == {<<"a">>, <<"b">>, <<"b", " ">>}

ValueChars == {"a", "%", " ", "\"", "\\", "ue", "SOH"}

SampleValues == {<<"a">>, <<"a", " ">>, <<"\"">>, <<"ue">>, <<"SOH">>}

TypeSamples == {<<"a">>, <<"a", "/">>}

\* lists of up to MaxParams entries with a sample value each
SampleLists == SeqsUpTo(Names \X SampleValues, MaxParams)

\* every one-entry list whose value is any text of up to MaxValueLen characters
SingleLists == {<<e>> : e \in Names \X SeqsUpTo(ValueChars, MaxValueLen)}

ParamLists == SampleLists \cup SingleLists

-----------------------------------------------------------------------------
(* The calls, step by step *)

StartParameters(ps, mt, dbg) ==
    /\ func = "create_mime_parameters"
    /\ ty = <<>> /\ subty = <<>>
    /\ params = ps /\ tp = mt /\ debug_assertions = dbg
    /\ pc = "loop" /\ idx = 0 /\ buf = <<>> /\ emitted = <<>>
    /\ oracle = NotRepresentable /\ encoder = NotCalled
    /\ result = "none" /\ err = NoError /\ mime = NoMime

StartMime(t, st, ps, mt, dbg) ==
    /\ func = "create_mime"
    /\ ty = t /\ subty = st
    /\ params = ps /\ tp = mt /\ debug_assertions = dbg
    /\ pc = "type" /\ idx = 0 /\ buf = <<>> /\ emitted = <<>>
    /\ oracle = NotRepresentable /\ encoder = NotCalled
    /\ result = "none" /\ err = NoError /\ mime = NoMime

\* no header declared, the generated test not run, an empty map
NotRun == [status |-> "notrun", name |-> <<>>]

NoInsert == [kind |-> 0, before |-> <<>>, outcome |-> <<>>]

NotValidated == [ran |-> FALSE, map |-> <<>>, outcome |-> <<>>]

HeadersIdle(ds) ==
    /\ decls = ds
    /\ selfcheck = NotRun
    /\ map = <<>>
    /\ attempts = 0
    /\ lastInsert = NoInsert
    /\ validated = NotValidated

Init ==
    /\ \E mt \in MailType, dbg \in BOOLEAN :
           \/ \E ps \in ParamLists : StartParameters(ps, mt, dbg)
           \/ \E ps \in SampleLists, t \in TypeSamples, st \in TypeSamples :
                  StartMime(t, st, ps, mt, dbg)
    /\ HeadersIdle(<<>>)

Fail(kind, e) ==
    /\ pc' = "done"
    /\ result' = kind
    /\ err' = e

\* create_mime: let mut string = String::from(assure_token(_type.as_ref())?)
CreateMimeType ==
    /\ pc = "type"
    /\ IF assure_token(ty).ok
       THEN buf' = ty /\ pc' = "subtype" /\ UNCHANGED <<result, err>>
       ELSE Fail("Err", assure_token(ty).err) /\ UNCHANGED buf
    /\ UNCHANGED <<func, ty, subty, params, tp, debug_assertions, idx,
                   emitted, oracle, encoder, mime>>
    /\ UNCHANGED hvars

\* create_mime: string.push('/'); string.push_str(assure_token(subtype)?)
CreateMimeSubtype ==
    /\ pc = "subtype"
    /\ IF assure_token(subty).ok
       THEN buf' = buf \o <<"/">> \o subty /\ pc' = "loop"
            /\ UNCHANGED <<result, err>>
       ELSE Fail("Err", assure_token(subty).err) /\ buf' = buf \o <<"/">>
    /\ UNCHANGED <<func, ty, subty, params, tp, debug_assertions, idx,
                   emitted, oracle, encoder, mime>>
    /\ UNCHANGED hvars

\* One iteration of create_mime_parameters' loop over the entry at idx + 1,
\* with res and enc what the collaborators return for its value.
Iterate(res, enc) ==
    LET name == params[idx + 1][1]
        value == params[idx + 1][2]
        out == create_encoded_mime_parameter(name, value, buf, tp,
                                             debug_assertions, res, enc)
    IN  /\ idx' = idx + 1
        /\ buf' = out.buf
        /\ emitted' = Append(emitted, SubSeq(out.buf, Len(buf) + 1, Len(out.buf)))
        /\ oracle' = (IF assure_token(name).ok THEN res ELSE NotRepresentable)
        /\ encoder' = (IF assure_token(name).ok /\ ~res.ok THEN enc ELSE NotCalled)
        /\ IF out.kind = "Ok"
           THEN UNCHANGED <<pc, result, err>>
           ELSE Fail(out.kind, out.err)
        /\ UNCHANGED <<func, ty, subty, params, tp, debug_assertions, mime>>
        /\ UNCHANGED hvars

\* Mutant of NextParameter: an entry whose name an earlier entry had is dropped.
NextParameterSkipsRepeatedName ==
    /\ pc = "loop"
    /\ idx < Len(params)
    /\ IF \E j \in 1..idx : params[j][1] = params[idx + 1][1]
       THEN /\ idx' = idx + 1
            /\ emitted' = Append(emitted, <<>>)
            /\ UNCHANGED <<func, ty, subty, params, tp, debug_assertions, pc,
                           buf, oracle, encoder, result, err, mime>>
            /\ UNCHANGED hvars
       ELSE Iterate(quote_if_needed(params[idx + 1][2], tp),
                    percent_encode_param_value(params[idx + 1][2]))

\* create_mime_parameters: for (name, value) in params.into_iter() { ...? }
NextParameter ==
    /\ pc = "loop"
    /\ idx < Len(params)
    /\ Iterate(quote_if_needed(params[idx + 1][2], tp),
               percent_encode_param_value(params[idx + 1][2]))

\* create_mime_parameters: Ok(()) once the iterator is exhausted
ReturnParameters ==
    /\ pc = "loop"
    /\ idx = Len(params)
    /\ IF func = "create_mime"
       THEN pc' = "parse" /\ UNCHANGED <<result, err>>
       ELSE Fail("Ok", NoError)
    /\ UNCHANGED <<func, ty, subty, params, tp, debug_assertions, idx, buf,
                   emitted, oracle, encoder, mime>>
    /\ UNCHANGED hvars

\* create_mime: Ok(string.parse::<mime::Mime>().expect("[BUG] ..."))
ParseMime ==
    /\ pc = "parse"
    /\ mime' = parse_mime(buf)
    /\ IF parse_mime(buf).ok THEN Fail("Ok", NoError) ELSE Fail("Abort", NoError)
    /\ UNCHANGED <<func, ty, subty, params, tp, debug_assertions, idx, buf,
                   emitted, oracle, encoder>>
    /\ UNCHANGED hvars

Next ==
    \/ CreateMimeType
    \/ CreateMimeSubtype
    \/ NextParameter
    \/ ReturnParameters
    \/ ParseMime

Spec == Init /\ [][Next]_vars

-----------------------------------------------------------------------------
(* The encoder beside collaborators that have drifted from its assumptions:
   the oracle may answer as for either profile or refuse, and the percent
   encoder may hand the value back unchanged. *)

DriftOracle(value) ==
    {quote_if_needed(value, mt) : mt \in MailType}
    \cup {NotRepresentable,
          Representable(Internationalized,
                        <<"\"">> \o quote_escape(value) \o <<"\"">>)}

DriftEncoder(value) == {percent_encode_param_value(value), Borrowed(value)}

InitDrift ==
    /\ \E ps \in SampleLists, mt \in MailType, dbg \in BOOLEAN :
           StartParameters(ps, mt, dbg)
    /\ HeadersIdle(<<>>)

DriftParameter ==
    /\ pc = "loop"
    /\ idx < Len(params)
    /\ \E res \in DriftOracle(params[idx + 1][2]),
          enc \in DriftEncoder(params[idx + 1][2]) : Iterate(res, enc)

NextDrift ==
    \/ DriftParameter
    \/ ReturnParameters

SpecDrift == InitDrift /\ [][NextDrift]_vars

-----------------------------------------------------------------------------
(* core::headers: def_headers!, the test it generates, and the header map *)

\* the field names a declaration may use ("X-ID" breaks the naming scheme)
HeaderNamePool == {<<"D", "a", "t", "e">>, <<"C", "c">>, <<"X", "-", "I", "D">>}

\* one record of a def_headers! call: `1` or `+`, and the field name
Declarations == [multi : {"1", "+"}, hname : HeaderNamePool]

DeclGroups == UNION {[1..n -> Declarations] : n \in 1..MaxDecls}

UpperChars == {"C", "D", "I", "X"}

LowerChars == {"a", "c", "e", "t"}

RECURSIVE valid_words(_, _)
\* s is capitalised words joined by `-`; atStart: a word begins here
valid_words(s, atStart) ==
    IF s = <<>> THEN ~atStart
    ELSE IF atStart THEN Head(s) \in UpperChars /\ valid_words(Tail(s), FALSE)
    ELSE IF Head(s) = "-" THEN valid_words(Tail(s), TRUE)
    ELSE Head(s) \in LowerChars /\ valid_words(Tail(s), FALSE)

validate_name(name) == valid_words(name, TRUE)

\* Mutant of PRIV_boolify: `1` is read as "may appear many times".
PRIV_boolify_always_false(multi) == FALSE

\* def_headers!(_PRIV_boolify +) => false, (_PRIV_boolify 1) => true
PRIV_boolify(multi) == IF multi = "+" THEN FALSE ELSE TRUE

\* const MAX_COUNT_EQ_1: bool = def_headers!(_PRIV_boolify $multi)
MAX_COUNT_EQ_1(d) == PRIV_boolify(d.multi)

\* fn name() -> HeaderName
HeaderNameOf(d) == d.hname

\* const HEADER_NAMES: &[&str] = &[ $( $hname ),+ ]
HEADER_NAMES == [i \in 1..Len(decls) |-> HeaderNameOf(decls[i])]

RECURSIVE first_not_inserted_forgetful(_, _, _)
\* Mutant of first_not_inserted: the set keeps only the name seen last.
first_not_inserted_forgetful(names, i, name_set) ==
    IF i > Len(names) THEN 0
    ELSE IF names[i] \in name_set THEN i
    ELSE first_not_inserted_forgetful(names, i + 1, {names[i]})

RECURSIVE first_not_inserted(_, _, _)
\* for name in HEADER_NAMES { if !name_set.insert(name) { panic!(...) } }:
\* the index of the name the loop panics at, 0 if it runs through
first_not_inserted(names, i, name_set) ==
    IF i > Len(names) THEN 0
    ELSE IF names[i] \in name_set THEN i
    ELSE first_not_inserted(names, i + 1, name_set \cup {names[i]})

RECURSIVE first_invalid_name(_, _)
\* for name in HEADER_NAMES { if validate_name(name).is_err() { panic!(...) } }
first_invalid_name(names, i) ==
    IF i > Len(names) THEN 0
    ELSE IF ~validate_name(names[i]) THEN i
    ELSE first_invalid_name(names, i + 1)

\* the body of the generated #[test] fn $tn()
generated_test(names) ==
    LET dup == first_not_inserted(names, 1, {})
        bad == first_invalid_name(names, 1)
    IN  IF dup > 0
        THEN [status |-> "panic: name appears more than one time",
              name |-> names[dup]]
        ELSE IF bad > 0
        THEN [status |-> "panic: invalid header name", name |-> names[bad]]
        ELSE [status |-> "passed", name |-> <<>>]

\* the test harness runs the generated test (cargo test; at most once here)
RunGeneratedTest ==
    /\ selfcheck = NotRun
    /\ selfcheck' = generated_test(HEADER_NAMES)
    /\ UNCHANGED <<decls, map, attempts, lastInsert, validated>>
    /\ UNCHANGED evars

MultiplicityViolation(d) == <<"MultiplicityViolation", HeaderNameOf(d)>>

contains(m, k) == \E i \in 1..Len(m) : m[i][1] = k

\* HeaderMap::insert(kind, value); the value is the number of the call
insert(m, k, value) ==
    IF MAX_COUNT_EQ_1(decls[k]) /\ contains(m, k)
    THEN [map |-> m, outcome |-> MultiplicityViolation(decls[k])]
    ELSE [map |-> Append(m, <<k, value>>), outcome |-> <<"Ok">>]

Insert ==
    /\ attempts < MaxInserts
    /\ \E k \in 1..Len(decls) :
           /\ map' = insert(map, k, attempts + 1).map
           /\ lastInsert' = [kind |-> k, before |-> map,
                             outcome |-> insert(map, k, attempts + 1).outcome]
    /\ attempts' = attempts + 1
    /\ UNCHANGED <<decls, selfcheck, validated>>
    /\ UNCHANGED evars

\* the parameter list a header body is encoded with in this specification
HeaderParams == <<<< <<"a">>, <<"a", " ">> >>>>

InitHeaders ==
    /\ StartParameters(HeaderParams, Ascii, TRUE)
    /\ \E ds \in DeclGroups : HeadersIdle(ds)

NextHeaders ==
    \/ RunGeneratedTest
    \/ Insert
    \/ NextParameter
    \/ ReturnParameters

SpecHeaders == InitHeaders /\ [][NextHeaders]_vars

-----------------------------------------------------------------------------
(* core::headers::validators: the resent-block validator *)

ResentPrefix == <<"R", "e", "s", "e", "n", "t", "-">>

ResentDateName == ResentPrefix \o <<"D", "a", "t", "e">>

ResentFromName == ResentPrefix \o <<"F", "r", "o", "m">>

ResentSenderName == ResentPrefix \o <<"S", "e", "n", "d", "e", "r">>

SubjectName == <<"S", "u", "b", "j", "e", "c", "t">>

\* 1 Subject, + ResentDate, + ResentFrom, + ResentSender of the def_headers! call
ResentDecls ==
    << [multi |-> "1", hname |-> SubjectName],
       [multi |-> "+", hname |-> ResentDateName],
       [multi |-> "+", hname |-> ResentFromName],
       [multi |-> "+", hname |-> ResentSenderName] >>

\* the bodies a kind is inserted with: a body is its number of mailboxes
\* (a Resent-From list of one or of two), 0 for a body that is no list
Bodies(d) == IF d.hname = ResentFromName THEN {1, 2} ELSE {0}

starts_with(name, prefix) ==
    Len(name) >= Len(prefix) /\ SubSeq(name, 1, Len(prefix)) = prefix

\* a block: HashMap<HeaderName, &EncodableInHeader> as a set of <<name, body>>
block_contains_key(block, name) == \E e \in block : e[1] = name

block_insert(block, name, content) ==
    {e \in block : e[1] # name} \cup {<<name, content>>}

ValidationOk == <<"Ok">>

validate_resent_block(block) ==
    IF ~block_contains_key(block, ResentDateName)
    THEN <<"Err", "each resent block must have a Resent-Date field">>
    ELSE IF /\ \E e \in block : e[1] = ResentFromName /\ e[2] > 1
            /\ ~block_contains_key(block, ResentSenderName)
    THEN <<"Err", "a multi-mailbox Resent-From needs a Resent-Sender field">>
    ELSE ValidationOk

RECURSIVE resent_scan_last_block_only(_, _, _)
\* Mutant of resent_scan: a block closed by a repeated name is not validated.
resent_scan_last_block_only(resents, i, block) ==
    IF i > Len(resents) THEN validate_resent_block(block)
    ELSE IF block_contains_key(block, resents[i][1])
    THEN resent_scan_last_block_only(resents, i + 1,
             block_insert({}, resents[i][1], resents[i][2]))
    ELSE resent_scan_last_block_only(resents, i + 1,
             block_insert(block, resents[i][1], resents[i][2]))

RECURSIVE resent_scan(_, _, _)
\* for (name, content) in resents { ... } validate_resent_block(&block)
resent_scan(resents, i, block) ==
    IF i > Len(resents) THEN validate_resent_block(block)
    ELSE IF block_contains_key(block, resents[i][1])
    THEN IF validate_resent_block(block) # ValidationOk
         THEN validate_resent_block(block)
         ELSE resent_scan(resents, i + 1,
                  block_insert({}, resents[i][1], resents[i][2]))
    ELSE resent_scan(resents, i + 1,
             block_insert(block, resents[i][1], resents[i][2]))

\* map.iter(): the entries as (name, content), in insertion order
map_iter(m) == [i \in 1..Len(m) |-> <<HeaderNameOf(decls[m[i][1]]), m[i][2]>>]

IsResent(e) == starts_with(e[1], ResentPrefix)

resent_any(m) == resent_scan(SelectSeq(map_iter(m), IsResent), 1, {})

\* map.insert(kind, body) with one of the kind's bodies
InsertBody ==
    /\ attempts < MaxResent
    /\ \E k \in 1..Len(decls) : \E body \in Bodies(decls[k]) :
           /\ map' = insert(map, k, body).map
           /\ lastInsert' = [kind |-> k, before |-> map,
                             outcome |-> insert(map, k, body).outcome]
    /\ attempts' = attempts + 1
    /\ UNCHANGED <<decls, selfcheck, validated>>
    /\ UNCHANGED evars

\* map.use_contextual_validators(): resent_any is the validator of every
\* Resent-* kind, and is run when the map holds an entry of one
UseContextualValidators ==
    /\ \E i \in 1..Len(map) : IsResent(map_iter(map)[i])
    /\ validated' = [ran |-> TRUE, map |-> map, outcome |-> resent_any(map)]
    /\ UNCHANGED <<decls, selfcheck, map, attempts, lastInsert>>
    /\ UNCHANGED evars

InitResent ==
    /\ StartParameters(HeaderParams, Ascii, TRUE)
    /\ HeadersIdle(ResentDecls)

NextResent ==
    \/ InsertBody
    \/ UseContextualValidators

SpecResent == InitResent /\ [][NextResent]_vars

-----------------------------------------------------------------------------
(* Vocabulary of the properties *)

RECURSIVE Flatten(_)
Flatten(ss) == IF ss = <<>> THEN <<>> ELSE Head(ss) \o Flatten(Tail(ss))

Range(f) == {f[i] : i \in DOMAIN f}

\* what buf holds when the loop over the parameters begins
Prefix == IF func = "create_mime" THEN ty \o <<"/">> \o subty ELSE <<>>

\* the call got as far as handing the parameters to create_mime_parameters
LoopEntered == func = "create_mime_parameters" \/ (is_token(ty) /\ is_token(subty))

\* the index of the first entry whose name is not a token, 0 if there is none
FirstInvalid ==
    IF \E k \in 1..Len(params) : ~is_token(params[k][1])
    THEN CHOOSE k \in 1..Len(params) :
             /\ ~is_token(params[k][1])
             /\ \A j \in 1..(k - 1) : is_token(params[j][1])
    ELSE 0

HasCtl(v) == \E i \in 1..Len(v) : v[i] \in CtlChars

HasNonAscii(v) == \E i \in 1..Len(v) : v[i] \in NonAsciiChars

\* a character the profile can carry, but only inside a quoted-string
NeedsQuoting(ch, mt) ==
    /\ ~is_token_char(ch)
    /\ ch \notin CtlChars
    /\ (ch \in NonAsciiChars => mt = Internationalized)

\* a character the profile cannot carry at all
NeedsEncoding(ch, mt) ==
    \/ ch \in CtlChars
    \/ (ch \in NonAsciiChars /\ mt = Ascii)

RawForm(name, value) == <<";">> \o name \o <<"=">> \o value

QuotedForm(name, value) ==
    <<";">> \o name \o <<"=", "\"">> \o quote_escape(value) \o <<"\"">>

ExtendedForm(name, value) ==
    <<";">> \o name \o <<"*", "=", "u", "t", "f", "8", "'", "'">>
            \o percent_encode_text(value)

\* the entries examined so far whose name is a token
Examined == {i \in 1..Len(emitted) : is_token(params[i][1])}

-----------------------------------------------------------------------------
(* C1: when entry k is the first whose name is not a token, no entry after k
   is ever examined, and once entry k has been examined the call has failed
   with InvalidToken carrying that name, having appended nothing for entry k:
   the buffer holds exactly what the entries before k appended. A call that
   reaches the parameter loop ends only after examining entry k. *)
C1_InvalidTokenStopsCall ==
    LET k == FirstInvalid
    IN  k > 0 =>
          /\ idx <= k
          /\ (pc = "done" /\ LoopEntered) => idx = k
          /\ idx = k =>
               /\ pc = "done"
               /\ result = "Err"
               /\ err = InvalidToken(params[k][1])
               /\ emitted[k] = <<>>
               /\ buf = Prefix \o Flatten(SubSeq(emitted, 1, k - 1))

C1_Witness ==
    /\ func = "create_mime_parameters"
    /\ Len(params) = 2
    /\ FirstInvalid = 1
    /\ pc = "done"
    /\ result = "Err"

(* C2: for a value with a non-ASCII character and no control character (not
   representable under Ascii, representable under Internationalized) and a
   token name, the entry's segment under Internationalized is the raw or the
   quoted `;name=...` form, and under Ascii it is the extended form
   `;name*=utf8''<percent-encoded value>`. *)
C2_NonAsciiValueByProfile ==
    \A i \in Examined :
        LET name == params[i][1]
            value == params[i][2]
        IN  (HasNonAscii(value) /\ ~HasCtl(value)) =>
              /\ tp = Internationalized =>
                   emitted[i] \in {RawForm(name, value), QuotedForm(name, value)}
              /\ tp = Ascii => emitted[i] = ExtendedForm(name, value)

C2_Witness ==
    /\ pc = "done"
    /\ result = "Ok"
    /\ tp = Ascii
    /\ \E i \in Examined :
           /\ HasNonAscii(params[i][2]) /\ ~HasCtl(params[i][2])
           /\ Len(params[i][2]) = 2

(* C3: for a value with at least one control character and a token name, the
   entry's segment is the extended form `;name*=utf8''<percent-encoded
   value>` under both profiles. *)
C3_ControlCharAlwaysExtended ==
    \A i \in Examined :
        HasCtl(params[i][2]) =>
            emitted[i] = ExtendedForm(params[i][1], params[i][2])

C3_Witness ==
    /\ pc = "done"
    /\ result = "Ok"
    /\ tp = Internationalized
    /\ \E i \in Examined : HasCtl(params[i][2]) /\ Len(params[i][2]) = 2

(* C4: when every name is a token, the buffer holds, after the prefix it
   started with, exactly one segment per examined entry, in the order given,
   each starting with `;` and each the segment of its own entry; a finished
   call has examined every entry and nothing follows the last segment. *)
SegmentOf(e) ==
    IF quote_if_needed(e[2], tp).ok
    THEN <<";">> \o e[1] \o <<"=">> \o quote_if_needed(e[2], tp).text
    ELSE ExtendedForm(e[1], e[2])

C4_SegmentsInOrder ==
    (FirstInvalid = 0 /\ pc \in {"loop", "parse", "done"} /\ LoopEntered) =>
        /\ Len(emitted) = idx
        /\ \A i \in 1..idx :
               emitted[i] = SegmentOf(params[i]) /\ Head(emitted[i]) = ";"
        /\ buf = Prefix \o Flatten([i \in 1..idx |-> SegmentOf(params[i])])
        /\ pc \in {"parse", "done"} => idx = Len(params)
        /\ (pc = "done" /\ func = "create_mime_parameters") => result = "Ok"

C4_Witness ==
    /\ func = "create_mime_parameters"
    /\ pc = "done"
    /\ result = "Ok"
    /\ Len(params) = 2
    /\ params[1][1] = params[2][1]
    /\ params[1][2] # params[2][2]

(* C5 as stated: a value with at least one character that must be quoted but
   is representable under the profile gets the quoted form. *)
C5_Original ==
    \A i \in Examined :
        (\E j \in 1..Len(params[i][2]) : NeedsQuoting(params[i][2][j], tp)) =>
            emitted[i] = QuotedForm(params[i][1], params[i][2])

(* C5 amended: a value with at least one character that must be quoted but is
   representable under the profile, and with no character the profile cannot
   carry (no control character, and no non-ASCII character under Ascii), gets
   `;name="value"` with every `"` and `\` of the value preceded by `\`. *)
C5_QuotedWhenRepresentable ==
    \A i \in Examined :
        LET value == params[i][2]
        IN  (/\ \E j \in 1..Len(value) : NeedsQuoting(value[j], tp)
             /\ \A j \in 1..Len(value) : ~NeedsEncoding(value[j], tp)) =>
                emitted[i] = QuotedForm(params[i][1], value)

C5_Witness ==
    /\ pc = "done"
    /\ result = "Ok"
    /\ \E i \in Examined :
           /\ params[i][2] = <<"\"", "\\">>
           /\ emitted[i] = <<";">> \o params[i][1]
                              \o <<"=", "\"", "\\", "\"", "\\", "\\", "\"">>

(* C6: for a token name and a value none of whose characters needs quoting or
   encoding under the profile, the entry's segment is exactly `;name=value`. *)
C6_PlainValueVerbatim ==
    \A i \in Examined :
        LET value == params[i][2]
        IN  (\A j \in 1..Len(value) :
                 ~NeedsQuoting(value[j], tp) /\ ~NeedsEncoding(value[j], tp)) =>
                emitted[i] = RawForm(params[i][1], value)

C6_Witness ==
    /\ pc = "done"
    /\ result = "Ok"
    /\ \E i \in Examined :
           /\ params[i][2] = <<"a", "%">>
           /\ emitted[i] = <<";">> \o params[i][1] \o <<"=", "a", "%">>

(* C7 as stated: for token type, subtype and names, create_mime returns Ok
   with a value whose type, subtype and parameter set are those handed in. *)
C7_RoundTrip ==
    (/\ func = "create_mime"
     /\ pc = "done"
     /\ is_token(ty) /\ is_token(subty)
     /\ FirstInvalid = 0) =>
        /\ result = "Ok"
        /\ mime.ok
        /\ mime.type = ty
        /\ mime.subtype = subty
        /\ Range(mime.params) = Range(params)

(* C10 as stated: whenever the oracle answered a request for Ascii with a
   success under Internationalized, the call has aborted and appended nothing
   for that entry. *)
ProfileMismatch ==
    /\ idx > 0
    /\ tp = Ascii
    /\ oracle.ok
    /\ oracle.tp = Internationalized

C10_Original ==
    ProfileMismatch =>
        /\ pc = "done"
        /\ result = "Abort"
        /\ emitted[idx] = <<>>

(* C10 amended: in a build with debug assertions the call aborts on such an
   answer and appends nothing for the entry; in a build without them the
   answer is not checked: the entry's segment `;name=<oracle text>` is
   appended and the call goes on (and returns Ok if the entry was the last). *)
C10_CheckedInDebugBuilds ==
    ProfileMismatch =>
        IF debug_assertions
        THEN /\ pc = "done"
             /\ result = "Abort"
             /\ emitted[idx] = <<>>
             /\ buf = Flatten(SubSeq(emitted, 1, idx - 1))
        ELSE /\ emitted[idx] = RawForm(params[idx][1], oracle.text)
             /\ result \in {"none", "Ok"}
             /\ pc = "done" => result = "Ok" /\ idx = Len(params)

C10_Witness ==
    /\ ProfileMismatch
    /\ debug_assertions
    /\ idx = 2
    /\ result = "Abort"

(* C11: the percent encoder is invoked for an entry only when the oracle
   refused the entry's value, and when it then hands the value back unchanged
   (borrowed) the call has aborted: it has returned neither Ok nor an error
   value, and the buffer holds only what the earlier entries appended. *)
EncoderInvoked == idx > 0 /\ encoder # NotCalled

C11_BorrowedEncodingAborts ==
    EncoderInvoked =>
        /\ is_token(params[idx][1])
        /\ ~oracle.ok
        /\ ~encoder.owned =>
               /\ pc = "done"
               /\ result = "Abort"
               /\ err = NoError
               /\ emitted[idx] = <<>>
               /\ buf = Flatten(SubSeq(emitted, 1, idx - 1))
        /\ encoder.owned =>
               emitted[idx] = <<";">> \o params[idx][1]
                                \o <<"*", "=", "u", "t", "f", "8", "'", "'">>
                                \o encoder.text

C11_Witness ==
    /\ EncoderInvoked
    /\ idx = 2
    /\ encoder = Borrowed(params[2][2])
    /\ buf # <<>>
    /\ result = "Abort"

-----------------------------------------------------------------------------
(* Properties of the header declarations and the header map *)

HasDuplicateName ==
    \E i, j \in 1..Len(decls) : i < j /\ decls[i].hname = decls[j].hname

\* the first record, in declaration order, that repeats an earlier name
FirstRepeat ==
    CHOOSE j \in 1..Len(decls) :
        /\ \E i \in 1..(j - 1) : decls[i].hname = decls[j].hname
        /\ \A l \in 1..(j - 1) :
               \A i \in 1..(l - 1) : decls[i].hname # decls[l].hname

OperationDone == idx > 0 \/ attempts > 0

(* C8 as stated: an encode or insert step happens only after the self-check
   has run and passed. *)
C8_Original == OperationDone => selfcheck.status = "passed"

(* C8 amended: whenever the generated test has run on a declaration group with
   two records of the same name it has panicked, naming the first name that
   repeats an earlier one; on a group without it has not reported a duplicate.
   The test is run by the test harness only: encode and insert steps do not
   wait for it. *)
C8_SelfCheckFindsDuplicate ==
    selfcheck # NotRun =>
        IF HasDuplicateName
        THEN /\ selfcheck.status = "panic: name appears more than one time"
             /\ selfcheck.name = decls[FirstRepeat].hname
        ELSE selfcheck.status # "panic: name appears more than one time"

C8_Witness ==
    /\ Len(decls) = 3
    /\ decls[1].hname = decls[3].hname
    /\ decls[1].hname # decls[2].hname
    /\ selfcheck.status = "panic: name appears more than one time"
    /\ OperationDone

(* C9: the map never holds two entries of a kind declared `1`; an insert of
   such a kind that the map already holds fails with MultiplicityViolation
   naming the kind and leaves the map as it was; an insert of a kind declared
   `+` succeeds and appends its entry at the end. *)
EntriesOf(k) == {i \in 1..Len(map) : map[i][1] = k}

C9_SingleOccurrence ==
    /\ \A k \in 1..Len(decls) :
           decls[k].multi = "1" => Cardinality(EntriesOf(k)) <= 1
    /\ attempts > 0 =>
           LET k == lastInsert.kind
               held == \E i \in 1..Len(lastInsert.before) :
                           lastInsert.before[i][1] = k
           IN  /\ (decls[k].multi = "1" /\ held) =>
                      /\ lastInsert.outcome =
                             <<"MultiplicityViolation", decls[k].hname>>
                      /\ map = lastInsert.before
               /\ (decls[k].multi = "+" \/ ~held) =>
                      /\ lastInsert.outcome = <<"Ok">>
                      /\ map = Append(lastInsert.before, <<k, attempts>>)

C9_Witness ==
    /\ attempts = 2
    /\ decls[lastInsert.kind].multi = "1"
    /\ lastInsert.before = <<<<lastInsert.kind, 1>>>>
    /\ lastInsert.outcome = <<"MultiplicityViolation", decls[lastInsert.kind].hname>>
    /\ map = lastInsert.before

-----------------------------------------------------------------------------
(* Properties of the resent-block validator *)

\* the Resent-* entries of the validated map, as (name, body), in order
Resents == SelectSeq([i \in 1..Len(validated.map) |->
                         <<decls[validated.map[i][1]].hname,
                           validated.map[i][2]>>], IsResent)

\* a block from entry s to entry e holds a Resent-Date, and a Resent-Sender
\* if one of its Resent-From entries has several mailboxes
BlockValid(s, e) ==
    /\ \E i \in s..e : Resents[i][1] = ResentDateName
    /\ (\E i \in s..e : Resents[i][1] = ResentFromName /\ Resents[i][2] > 1)
           => \E i \in s..e : Resents[i][1] = ResentSenderName

\* every block of the partition whose blocks begin at the entries in starts
AllBlocksValid(starts) ==
    \A s \in starts :
        LET later == {t \in starts : t > s}
            e == IF later = {} THEN Len(Resents)
                 ELSE (CHOOSE t \in later : \A u \in later : t <= u) - 1
        IN  BlockValid(s, e)

\* blocks delimited by Resent-Date: every Resent-Date after the first begins one
DateStarts ==
    {1} \cup {i \in 2..Len(Resents) :
                 /\ Resents[i][1] = ResentDateName
                 /\ \E j \in 1..(i - 1) : Resents[j][1] = ResentDateName}

\* blocks delimited by any repeated kind: an entry begins a block exactly
\* when its kind already occurs in the block running up to it
RepeatStarts ==
    CHOOSE S \in SUBSET (1..Len(Resents)) :
        /\ 1 \in S
        /\ \A i \in 2..Len(Resents) :
               LET s == CHOOSE t \in S : t < i /\ \A u \in S : u < i => u <= t
               IN  i \in S <=> \E j \in s..(i - 1) : Resents[j][1] = Resents[i][1]

(* C12 as stated: the validator succeeds exactly when every block of the
   partition delimited by repeated Resent-Date entries is valid. *)
C12_Original ==
    validated.ran =>
        (validated.outcome = ValidationOk <=> AllBlocksValid(DateStarts))

(* C12 amended: the validator scans the Resent-* entries in insertion order
   and begins a new block at every entry whose kind the running block already
   holds (any Resent-* kind, not only Resent-Date); it succeeds exactly when
   every block of that partition, the last included, holds a Resent-Date and,
   if its Resent-From has several mailboxes, a Resent-Sender. *)
C12_BlocksByRepeatedKind ==
    validated.ran =>
        (validated.outcome = ValidationOk <=> AllBlocksValid(RepeatStarts))

C12_Witness ==
    /\ validated.ran
    /\ Len(validated.map) = 4
    /\ Resents = << <<ResentDateName, 0>>, <<ResentFromName, 1>>,
                    <<ResentFromName, 1>>, <<ResentDateName, 0>> >>
    /\ RepeatStarts = {1, 3}
    /\ validated.outcome = ValidationOk

=============================================================================
